---- MODULE Spec2Model ----
(***************************************************************************)
(* A model of randomizer/randomizer.py: the species, ability and item      *)
(* passes of the randomizer over a small source tree.                      *)
(*                                                                         *)
(* A text file is a sequence of lines.  A line is a record                 *)
(*   [start, end : BOOLEAN, cmd : STRING, toks : Seq(STRING)]              *)
(* start/end say whether the line contains "// RANDOMIZER_START" /         *)
(* "// RANDOMIZER_END", cmd is the script command written on the line (in  *)
(* the case it is written in) and toks the SPECIES_/ABILITY_/ITEM_ words   *)
(* of the line, left to right: they are the only places the regular        *)
(* expressions of the program match, everything else is copied.            *)
(***************************************************************************)
EXTENDS Integers, Sequences, FiniteSets, TLC

(* ---------------------------- bounds ----------------------------------- *)

\* Longest excerpt of the corpus that makes a target file.
MaxLines == 3

(* ------------------------- configuration ------------------------------- *)

USE_BST_RANDOMIZATION == TRUE
BST_SIMILARITY_RANGE == 75
\* The Unown letter forms of the list are left out.
POOL_EXCLUSIONS == {"SPECIES_NONE", "SPECIES_EGG", "SPECIES_UNOWN"}
PROTECTED_SPECIES == {"SPECIES_NONE", "SPECIES_EGG"}
ORIGINAL_STARTERS == <<"SPECIES_BULBASAUR", "SPECIES_CHARMANDER", "SPECIES_SQUIRTLE">>
PROTECTED_ABILITIES == {"ABILITY_NONE", "ABILITY_WONDER_GUARD"}
FORBIDDEN_ITEM_COMMANDS == {"addhiddenitem"}
ITEM_POOL_EXCLUSIONS == {"ITEM_NONE", "ITEM_BERRY_POUCH", "ITEM_TM_CASE"}

\* The target files, in sorted order: the two of MANUAL_FILES_TO_RANDOMIZE /
\* the discovered scripts.inc that both the species and the item pass process.
FileA == "data/maps/Route1/scripts.inc"
FileB == "src/field_specials.c"
unique_files_to_process == <<FileA, FileB>>
final_item_files_to_process == <<FileA, FileB>>
ABILITY_DATA_FILE == "src/data/pokemon/species_info.h"
Files == {FileA, FileB, ABILITY_DATA_FILE}

(* ------------------------- words and patterns -------------------------- *)

StarterSet == {ORIGINAL_STARTERS[i] : i \in 1..Len(ORIGINAL_STARTERS)}
SpeciesWords == POOL_EXCLUSIONS \cup StarterSet \cup {"SPECIES_PIKACHU", "SPECIES_MEWTWO"}
AbilityWords == PROTECTED_ABILITIES \cup {"ABILITY_OVERGROW", "ABILITY_BLAZE"}
ItemWords == {"ITEM_NONE", "ITEM_TM_CASE", "ITEM_HM01", "ITEM_BICYCLE", "ITEM_POTION", "ITEM_ANTIDOTE"}

\* re \bSPECIES_\w+\b, \bABILITY_\w+\b, \bITEM_\w+\b on a word.
encounter_pattern(w) == w \in SpeciesWords
ability_pattern(w) == w \in AbilityWords
item_pattern(w) == w \in ItemWords
\* str.startswith("ITEM_HM")
StartsWithItemHM(w) == w \in {"ITEM_HM01"}

\* str.lower() on the commands that occur.
Lower(c) ==
  CASE c = "AddHiddenItem" -> "addhiddenitem"
    [] c = "ADDHIDDENITEM" -> "addhiddenitem"
    [] OTHER -> c
\* any(cmd in line.lower() for cmd in forbidden_lower)
HasForbiddenCommand(line) ==
  \E cmd \in {Lower(c) : c \in FORBIDDEN_ITEM_COMMANDS} : Lower(line.cmd) = cmd

Range(s) == {s[i] : i \in 1..Len(s)}
EmptyMap == [x \in {} |-> x]

RECURSIVE SumSeq(_)
SumSeq(s) == IF s = <<>> THEN 0 ELSE Head(s) + SumSeq(Tail(s))

Abs(x) == IF x < 0 THEN -x ELSE x

RECURSIVE SeqProduct(_)
\* All sequences that take their i-th element from the i-th set: one per way
\* the calls of random.choice along a text can come out.
SeqProduct(sets) ==
  IF sets = <<>> THEN {<<>>}
  ELSE {<<h>> \o t : h \in Head(sets), t \in SeqProduct(Tail(sets))}

Count(s, x) == Cardinality({i \in 1..Len(s) : s[i] = x})

(* ------------------------- species catalog ----------------------------- *)

\* get_all_species without the exclusion of POOL_EXCLUSIONS.
get_all_species_unfiltered(header) ==
  IF ~header.exists THEN <<>>
  ELSE SelectSeq(header.lines, LAMBDA l : l \in SpeciesWords)

\* A definitions header is [exists, lines]; a line is the name it defines
\* ("#define NAME value"), any other line a word the pattern does not match.
species_pattern(l) == l \in SpeciesWords
get_all_species(header) ==
  IF ~header.exists THEN <<>>
  ELSE SelectSeq(header.lines, LAMBDA l : species_pattern(l) /\ l \notin POOL_EXCLUSIONS)

\* The values of the conversion on the names that occur in the CSV inputs.
format_name_to_species_constant(name) ==
  CASE name = "Bulbasaur" -> "SPECIES_BULBASAUR"
    [] name = "Charmander" -> "SPECIES_CHARMANDER"
    [] name = "Pikachu" -> "SPECIES_PIKACHU"
    [] name = "Mewtwo" -> "SPECIES_MEWTWO"
    [] name = "MewtwoMega Mewtwo X" -> "SPECIES_MEWTWO_MEGA_MEWTWO_X"
    [] name = "Unown" -> "SPECIES_UNOWN"
    [] name = "Mr. Mime" -> "SPECIES_MR_MIME"
    [] OTHER -> "SPECIES_"

RECURSIVE CsvRows(_, _, _)
CsvRows(rows, valid_species, bst_map) ==
  IF rows = <<>> THEN bst_map
  ELSE LET species_constant == format_name_to_species_constant(Head(rows).Name)
           next == IF species_constant \in valid_species
                   THEN [s \in DOMAIN bst_map \cup {species_constant} |->
                           IF s = species_constant THEN Head(rows).Total ELSE bst_map[s]]
                   ELSE bst_map
       IN CsvRows(Tail(rows), valid_species, next)

\* A result is [none, map]: none for Python's None.
NoneMap == [none |-> TRUE, map |-> EmptyMap]
get_species_bst_map_from_csv(csv, header) ==
  IF ~csv.exists THEN NoneMap
  ELSE LET valid_species == Range(get_all_species(header))
       IN IF valid_species = {} THEN NoneMap
          ELSE [none |-> FALSE, map |-> CsvRows(csv.rows, valid_species, EmptyMap)]

\* len(stat_names)
NumStats == 6
RECURSIVE HeaderBlocks(_, _)
\* A block is [name, stats]: stats the values of the stat fields found in it.
HeaderBlocks(blocks, bst_map) ==
  IF blocks = <<>> THEN bst_map
  ELSE LET b == Head(blocks)
           next == IF b.name \in POOL_EXCLUSIONS THEN bst_map
                   ELSE IF Len(b.stats) = NumStats
                   THEN [s \in DOMAIN bst_map \cup {b.name} |->
                           IF s = b.name THEN SumSeq(b.stats) ELSE bst_map[s]]
                   ELSE bst_map
       IN HeaderBlocks(Tail(blocks), next)

get_species_bst_map_from_header(base_stats) ==
  IF ~base_stats.exists THEN NoneMap
  ELSE [none |-> FALSE, map |-> HeaderBlocks(base_stats.blocks, EmptyMap)]

\* build_bst_swap_pools with < for <=.
build_bst_swap_pools_strict(bst_map, similarity_range) ==
  [species1 \in DOMAIN bst_map |->
     {species2 \in DOMAIN bst_map :
        Abs(bst_map[species1] - bst_map[species2]) < similarity_range}]

\* A pool is the set of the list's members (the names of a dict are distinct).
build_bst_swap_pools(bst_map, similarity_range) ==
  [species1 \in DOMAIN bst_map |->
     {species2 \in DOMAIN bst_map :
        Abs(bst_map[species1] - bst_map[species2]) <= similarity_range}]

(* ------------------------- species pass -------------------------------- *)

\* replacement_logic without the test of PROTECTED_SPECIES.
replacement_logic_unprotected(original_species, starter_map, bst_swap_pools, fallback_pool) ==
  IF original_species \in DOMAIN starter_map THEN {starter_map[original_species]}
  ELSE IF bst_swap_pools # EmptyMap
       THEN IF original_species \in DOMAIN bst_swap_pools
               /\ bst_swap_pools[original_species] # {}
            THEN bst_swap_pools[original_species]
            ELSE {original_species}
  ELSE IF fallback_pool # <<>> THEN Range(fallback_pool)
  ELSE {original_species}

\* replacement_logic without the test of starter_map: a starter is drawn like
\* any other species.
replacement_logic_unpinned(original_species, starter_map, bst_swap_pools, fallback_pool) ==
  IF original_species \in PROTECTED_SPECIES THEN {original_species}
  ELSE IF bst_swap_pools # EmptyMap
       THEN IF original_species \in DOMAIN bst_swap_pools
               /\ bst_swap_pools[original_species] # {}
            THEN bst_swap_pools[original_species]
            ELSE {original_species}
  ELSE IF fallback_pool # <<>> THEN Range(fallback_pool)
  ELSE {original_species}

\* replacement_logic that goes on to the flat pool when the pools have no
\* entry for the species.
replacement_logic_falls_through(original_species, starter_map, bst_swap_pools, fallback_pool) ==
  IF original_species \in DOMAIN starter_map THEN {starter_map[original_species]}
  ELSE IF original_species \in PROTECTED_SPECIES THEN {original_species}
  ELSE IF bst_swap_pools # EmptyMap /\ original_species \in DOMAIN bst_swap_pools
          /\ bst_swap_pools[original_species] # {}
       THEN bst_swap_pools[original_species]
  ELSE IF fallback_pool # <<>> THEN Range(fallback_pool)
  ELSE {original_species}

\* The values replacement_logic can return for one match.  bst_swap_pools is
\* EmptyMap for None (an empty dict is as false), fallback_pool <<>> for None.
replacement_logic(original_species, starter_map, bst_swap_pools, fallback_pool) ==
  IF original_species \in DOMAIN starter_map THEN {starter_map[original_species]}
  ELSE IF original_species \in PROTECTED_SPECIES THEN {original_species}
  ELSE IF bst_swap_pools # EmptyMap
       THEN IF original_species \in DOMAIN bst_swap_pools
               /\ bst_swap_pools[original_species] # {}
            THEN bst_swap_pools[original_species]
            ELSE {original_species}
  ELSE IF fallback_pool # <<>> THEN Range(fallback_pool)
  ELSE {original_species}

\* encounter_pattern.sub(replacement_logic, line)
SpeciesSubLine(line, starter_map, bst_swap_pools, fallback_pool) ==
  {[line EXCEPT !.toks = t] :
     t \in SeqProduct([i \in 1..Len(line.toks) |->
            IF encounter_pattern(line.toks[i])
            THEN replacement_logic(line.toks[i], starter_map, bst_swap_pools, fallback_pool)
            ELSE {line.toks[i]}])}

RECURSIVE randomize_enabled(_, _)
\* The flag after the marker tests of line i.
randomize_enabled(lines, i) ==
  IF i = 0 THEN FALSE
  ELSE IF lines[i].start THEN TRUE
  ELSE IF lines[i].end THEN FALSE
  ELSE randomize_enabled(lines, i - 1)

HasStartMarker(content) == \E i \in 1..Len(content) : content[i].start

\* The contents randomize_species_in_file can write for a file it read.
SpeciesFinalContent(content, starter_map, bst_swap_pools, fallback_pool) ==
  IF HasStartMarker(content)
  THEN SeqProduct([i \in 1..Len(content) |->
         IF randomize_enabled(content, i) /\ ~content[i].start
         THEN SpeciesSubLine(content[i], starter_map, bst_swap_pools, fallback_pool)
         ELSE {content[i]}])
  ELSE SeqProduct([i \in 1..Len(content) |->
         SpeciesSubLine(content[i], starter_map, bst_swap_pools, fallback_pool)])

(* ------------------------- ability pass -------------------------------- *)

ability_header_pattern(l) == l \in AbilityWords
get_all_abilities(header) ==
  IF ~header.exists THEN <<>>
  ELSE SelectSeq(header.lines, LAMBDA l : ability_header_pattern(l) /\ l \notin PROTECTED_ABILITIES)

ability_replacement_logic(original_ability, ability_pool) ==
  IF original_ability \in PROTECTED_ABILITIES THEN {original_ability}
  ELSE Range(ability_pool)

AbilityFinalContent(content, ability_pool) ==
  SeqProduct([i \in 1..Len(content) |->
    {[content[i] EXCEPT !.toks = t] :
       t \in SeqProduct([j \in 1..Len(content[i].toks) |->
              IF ability_pattern(content[i].toks[j])
              THEN ability_replacement_logic(content[i].toks[j], ability_pool)
              ELSE {content[i].toks[j]}])}])

(* --------------------------- item pass --------------------------------- *)

\* items.json is [status, items]; an entry is [itemId, pocket], itemId ""
\* for an entry without one.
get_all_items(json) ==
  IF json.status # "ok" THEN <<>>
  ELSE LET kept == SelectSeq(json.items, LAMBDA item :
                     ~(item.itemId = "" \/ item.itemId \in ITEM_POOL_EXCLUSIONS
                       \/ StartsWithItemHM(item.itemId))
                     /\ item.pocket # "POCKET_KEY_ITEMS")
       IN [i \in 1..Len(kept) |-> kept[i].itemId]

\* The items one line adds to regular_locations.
GatherLine(line, regular_item_pool) ==
  IF HasForbiddenCommand(line) THEN <<>>
  ELSE SelectSeq(line.toks, LAMBDA w : item_pattern(w) /\ w \in Range(regular_item_pool))

RECURSIVE GatherFile(_, _)
GatherFile(content, regular_item_pool) ==
  IF content = <<>> THEN <<>>
  ELSE GatherLine(Head(content), regular_item_pool) \o GatherFile(Tail(content), regular_item_pool)

\* Shuffles that draws every position from the values of the list anew.
Shuffles_with_repeats(s) == [1..Len(s) -> Range(s)]

\* The outcomes of random.shuffle: the arrangements of the same values.
Shuffles(s) ==
  {p \in [1..Len(s) -> Range(s)] : \A x \in Range(s) : Count(p, x) = Count(s, x)}

RECURSIVE ValuesFor(_, _, _)
ValuesFor(x, locations, pool) ==
  IF locations = <<>> THEN <<>>
  ELSE (IF Head(locations) = x THEN <<Head(pool)>> ELSE <<>>)
       \o ValuesFor(x, Tail(locations), Tail(pool))

\* {original_item: [shuffled items at its positions]}
BuildItemMap(regular_locations, shuffled_pool) ==
  [x \in Range(regular_locations) |-> ValuesFor(x, regular_locations, shuffled_pool)]

\* line_replacer pops for a match that has values left.
line_replacer_hits(original_item, item_map) ==
  original_item \in DOMAIN item_map /\ item_map[original_item] # <<>>

RECURSIVE ApplyToks_keeps(_, _)
\* ApplyToks that reads the first value of the list and leaves it there.
ApplyToks_keeps(toks, item_map) ==
  IF toks = <<>> THEN [toks |-> <<>>, map |-> item_map, hits |-> <<>>]
  ELSE LET w == Head(toks)
           hit == item_pattern(w) /\ line_replacer_hits(w, item_map)
           rest == ApplyToks_keeps(Tail(toks), item_map)
       IN [toks |-> <<IF hit THEN Head(item_map[w]) ELSE w>> \o rest.toks,
           map |-> rest.map,
           hits |-> <<hit>> \o rest.hits]

RECURSIVE ApplyToks(_, _)
\* re.sub over one line: [toks, map, hits], hits[i] saying that word i popped.
ApplyToks(toks, item_map) ==
  IF toks = <<>> THEN [toks |-> <<>>, map |-> item_map, hits |-> <<>>]
  ELSE LET w == Head(toks)
           hit == item_pattern(w) /\ line_replacer_hits(w, item_map)
           m2 == IF hit THEN [item_map EXCEPT ![w] = Tail(@)] ELSE item_map
           rest == ApplyToks(Tail(toks), m2)
       IN [toks |-> <<IF hit THEN Head(item_map[w]) ELSE w>> \o rest.toks,
           map |-> rest.map,
           hits |-> <<hit>> \o rest.hits]

RECURSIVE ApplyLines(_, _)
\* The loop over the lines: [lines, map, hits].
ApplyLines(content, item_map) ==
  IF content = <<>> THEN [lines |-> <<>>, map |-> item_map, hits |-> <<>>]
  ELSE LET one == ApplyToks(Head(content).toks, item_map)
           rest == ApplyLines(Tail(content), one.map)
       IN [lines |-> <<[Head(content) EXCEPT !.toks = one.toks]>> \o rest.lines,
           map |-> rest.map,
           hits |-> <<one.hits>> \o rest.hits]

(* ----------------------------- inputs ---------------------------------- *)

Ln(st, en, cmd, toks) == [start |-> st, end |-> en, cmd |-> cmd, toks |-> toks]

\* A script with the cases of the passes: words before, on, inside and after
\* the markers, a hidden-item line, pinned, protected and excluded species,
\* regular, key and excluded items.  A target file is an excerpt of it.
Corpus ==
  << Ln(FALSE, FALSE, "setwildbattle", <<"SPECIES_PIKACHU", "ITEM_ANTIDOTE">>),
     Ln(TRUE, FALSE, "", <<"SPECIES_BULBASAUR", "ITEM_POTION">>),
     Ln(FALSE, TRUE, "", <<"SPECIES_EGG", "ITEM_ANTIDOTE">>),
     Ln(FALSE, FALSE, "givemon", <<"SPECIES_CHARMANDER", "ITEM_POTION">>),
     Ln(TRUE, TRUE, "", <<"SPECIES_PIKACHU">>),
     Ln(FALSE, FALSE, "giveitem", <<"SPECIES_BULBASAUR", "ITEM_POTION">>),
     Ln(FALSE, FALSE, "AddHiddenItem", <<"ITEM_POTION", "ITEM_ANTIDOTE">>),
     Ln(FALSE, FALSE, "finditem", <<"ITEM_BICYCLE", "SPECIES_MEWTWO">>),
     Ln(FALSE, FALSE, "addhiddenitem", <<"ITEM_POTION">>),
     Ln(FALSE, FALSE, "giveitem", <<"ITEM_ANTIDOTE", "SPECIES_UNOWN">>) >>

\* SubSeq gives the empty file when j < i.
Excerpts == {SubSeq(Corpus, i, j) : i \in 1..Len(Corpus), j \in 0..Len(Corpus)}

Contents == {c \in Excerpts : Len(c) <= MaxLines}

Missing == [exists |-> FALSE, lines |-> <<>>]
SpeciesHeader ==
  [exists |-> TRUE,
   lines |-> <<"SPECIES_NONE", "SPECIES_BULBASAUR", "SPECIES_PIKACHU",
               "SPECIES_UNOWN", "NUM_SPECIES", "SPECIES_PIKACHU">>]
NoCsv == [exists |-> FALSE, rows |-> <<>>]
Csv ==
  [exists |-> TRUE,
   rows |-> << [Name |-> "Bulbasaur", Total |-> 318], [Name |-> "Pikachu", Total |-> 320],
               [Name |-> "Mewtwo", Total |-> 680], [Name |-> "Unown", Total |-> 336],
               [Name |-> "MewtwoMega Mewtwo X", Total |-> 780] >>]
CsvOfOthers == [exists |-> TRUE, rows |-> << [Name |-> "Mr. Mime", Total |-> 460] >>]
NoBaseStats == [exists |-> FALSE, blocks |-> <<>>]
BaseStats ==
  [exists |-> TRUE,
   blocks |-> << [name |-> "SPECIES_NONE", stats |-> <<0, 0, 0, 0, 0, 0>>],
                 [name |-> "SPECIES_BULBASAUR", stats |-> <<45, 49, 49, 45, 65, 65>>],
                 [name |-> "SPECIES_CHARMANDER", stats |-> <<39, 52, 43, 65, 60, 50>>],
                 [name |-> "SPECIES_PIKACHU", stats |-> <<35, 55, 30, 90, 50>>],
                 [name |-> "SPECIES_UNOWN", stats |-> <<48, 72, 48, 48, 72, 48>>],
                 [name |-> "SPECIES_MEWTWO", stats |-> <<106, 110, 90, 130, 154, 90>>] >>]
\* species.h, pokemon.csv and base_stats.h: the CSV's scores; the header's
\* (the CSV missing, or species.h missing, which makes the CSV unusable); a
\* CSV that names none of the project's species, which leaves an empty map and
\* no fallback to the header; no scores; and nothing at all.
ModeInputs ==
  { <<SpeciesHeader, Csv, NoBaseStats>>,
    <<SpeciesHeader, NoCsv, BaseStats>>,
    <<Missing, Csv, BaseStats>>,
    <<SpeciesHeader, CsvOfOthers, BaseStats>>,
    <<SpeciesHeader, NoCsv, NoBaseStats>>,
    <<Missing, NoCsv, NoBaseStats>> }
AbilityHeader ==
  [exists |-> TRUE,
   lines |-> <<"ABILITY_NONE", "ABILITY_OVERGROW", "ABILITY_BLAZE",
               "ABILITY_WONDER_GUARD", "ABILITIES_COUNT", "ABILITY_BLAZE">>]
AbilityHeaders == {Missing, AbilityHeader}
ItemEntries ==
  << [itemId |-> "ITEM_NONE", pocket |-> "POCKET_ITEMS"],
     [itemId |-> "ITEM_POTION", pocket |-> "POCKET_ITEMS"],
     [itemId |-> "ITEM_ANTIDOTE", pocket |-> "POCKET_ITEMS"],
     [itemId |-> "ITEM_BICYCLE", pocket |-> "POCKET_KEY_ITEMS"],
     [itemId |-> "ITEM_HM01", pocket |-> "POCKET_TM_CASE"],
     [itemId |-> "ITEM_TM_CASE", pocket |-> "POCKET_KEY_ITEMS"],
     [itemId |-> "", pocket |-> "POCKET_ITEMS"] >>
ItemJsonInputs ==
  { [status |-> "missing", items |-> <<>>],
    [status |-> "malformed", items |-> <<>>],
    [status |-> "ok", items |-> <<>>],
    [status |-> "ok", items |-> ItemEntries] }
AbilityData ==
  << Ln(FALSE, FALSE, ".abilities", <<"ABILITY_OVERGROW", "ABILITY_NONE">>),
     Ln(FALSE, FALSE, ".abilities", <<"ABILITY_WONDER_GUARD", "ABILITY_BLAZE">>) >>

Statuses == {"ok", "missing", "readonly"}
AllOk == [f \in Files |-> "ok"]

\* What is on disk when the program starts.
Env(sh, csv, bs, ah, js, st, a, b) ==
  [species_h |-> sh, csv |-> csv, base_stats |-> bs, abilities_h |-> ah,
   items_json |-> js, status |-> st,
   files |-> [f \in Files |->
               IF st[f] = "missing" THEN <<>>
               ELSE IF f = FileA THEN a ELSE IF f = FileB THEN b ELSE AbilityData]]

NoItems == [status |-> "missing", items |-> <<>>]
Items == [status |-> "ok", items |-> ItemEntries]
FixedA == SubSeq(Corpus, 5, 7)
FixedB == SubSeq(Corpus, 3, 4)

\* The inputs the run is checked on.  The species inputs with every pair of
\* files; the item inputs with every pair of files; and the states of the
\* files and of the other inputs with one pair of files.
Environments ==
  {Env(m[1], m[2], m[3], Missing, NoItems, AllOk, a, b) :
     m \in ModeInputs, a \in Contents, b \in Contents}
  \cup
  {Env(Missing, NoCsv, NoBaseStats, Missing, Items, AllOk, a, b) :
     a \in Contents, b \in Contents}
  \cup
  {Env(m[1], m[2], m[3], ah, js, st, FixedA, FixedB) :
     m \in {<<SpeciesHeader, Csv, NoBaseStats>>, <<SpeciesHeader, NoCsv, NoBaseStats>>,
            <<Missing, NoCsv, NoBaseStats>>},
     ah \in AbilityHeaders, js \in ItemJsonInputs, st \in [Files -> Statuses]}

(* ------------------------------ state ---------------------------------- *)

VARIABLES
  env,                \* the inputs: headers, tables and the original files
  fs,                 \* the files' contents on disk
  pc,                 \* where __main__ is
  idx,                \* the position of the running loop over the files
  starter_map, bst_swap_pools, fallback_pool,
  all_abilities,
  regular_item_pool, regular_locations, shuffled_pool, item_map,
  species_written,    \* the files the species pass has written
  items_written,      \* the files the item pass has written
  hits                \* per file the item pass has read: the words that popped

vars == <<env, fs, pc, idx, starter_map, bst_swap_pools, fallback_pool, all_abilities,
          regular_item_pool, regular_locations, shuffled_pool, item_map,
          species_written, items_written, hits>>

Init ==
  /\ env \in Environments
  /\ fs = env.files
  /\ pc = "mode"
  /\ idx = 1
  /\ starter_map = EmptyMap
  /\ bst_swap_pools = EmptyMap
  /\ fallback_pool = <<>>
  /\ all_abilities = <<>>
  /\ regular_item_pool = <<>>
  /\ regular_locations = <<>>
  /\ shuffled_pool = <<>>
  /\ item_map = EmptyMap
  /\ species_written = {}
  /\ items_written = {}
  /\ hits = EmptyMap

(* ----------------------------- __main__ -------------------------------- *)

\* StarterCandidates without the fallback to the starter itself: the draw is
\* from the entry, which may be absent or empty.
StarterCandidates_unguarded(pools, starter) ==
  IF starter \in DOMAIN pools THEN pools[starter] ELSE {}

\* What the pinned mapping can give a starter in similarity mode.
StarterCandidates(pools, starter) ==
  IF starter \in DOMAIN pools /\ pools[starter] # {} THEN pools[starter] ELSE {starter}

BstStarterMaps(pools) ==
  {[s \in StarterSet |-> q[CHOOSE i \in 1..Len(ORIGINAL_STARTERS) : ORIGINAL_STARTERS[i] = s]] :
     q \in SeqProduct([i \in 1..Len(ORIGINAL_STARTERS) |->
                        StarterCandidates(pools, ORIGINAL_STARTERS[i])])}

\* Mode "Similar BST": the attribute map, the pools and the pinned mapping.
SelectMode ==
  /\ pc = "mode"
  /\ LET from_csv == get_species_bst_map_from_csv(env.csv, env.species_h)
         species_bst_map == IF from_csv.none
                            THEN get_species_bst_map_from_header(env.base_stats)
                            ELSE from_csv
     IN IF USE_BST_RANDOMIZATION /\ ~species_bst_map.none /\ species_bst_map.map # EmptyMap
        THEN /\ bst_swap_pools' = build_bst_swap_pools(species_bst_map.map, BST_SIMILARITY_RANGE)
             /\ starter_map' \in BstStarterMaps(bst_swap_pools')
        ELSE UNCHANGED <<bst_swap_pools, starter_map>>
  /\ pc' = "fully_random"
  /\ UNCHANGED <<env, fs, idx, fallback_pool, all_abilities, regular_item_pool,
                 regular_locations, shuffled_pool, item_map, species_written,
                 items_written, hits>>

\* Mode "Fully Random", when the first left no pinned mapping; then on to the
\* species loop when there is one.
FullyRandom ==
  /\ pc = "fully_random"
  /\ IF starter_map = EmptyMap
     THEN /\ fallback_pool' = get_all_species(env.species_h)
          /\ IF fallback_pool' # <<>>
             THEN starter_map' \in [StarterSet -> Range(fallback_pool')]
             ELSE UNCHANGED starter_map
     ELSE UNCHANGED <<fallback_pool, starter_map>>
  /\ pc' = IF starter_map' # EmptyMap THEN "species" ELSE "ability"
  /\ UNCHANGED <<env, fs, idx, bst_swap_pools, all_abilities, regular_item_pool,
                 regular_locations, shuffled_pool, item_map, species_written,
                 items_written, hits>>

\* The loop's step to the next file, or past the last one to `after`.
Advance(files, here, after) ==
  IF idx = Len(files) THEN idx' = 1 /\ pc' = after
  ELSE idx' = idx + 1 /\ pc' = here

\* randomize_species_in_file on a file it can read and write.
RandomizeSpeciesFile ==
  /\ pc = "species"
  /\ LET filepath == unique_files_to_process[idx]
     IN /\ env.status[filepath] = "ok"
        /\ \E final_content \in SpeciesFinalContent(fs[filepath], starter_map,
                                                    bst_swap_pools, fallback_pool) :
             fs' = [fs EXCEPT ![filepath] = final_content]
        /\ species_written' = species_written \cup {filepath}
  /\ Advance(unique_files_to_process, "species", "ability")
  /\ UNCHANGED <<env, starter_map, bst_swap_pools, fallback_pool, all_abilities,
                 regular_item_pool, regular_locations, shuffled_pool, item_map,
                 items_written, hits>>

\* The file is read, the write fails: relative_path is bound, the handler
\* reports and returns.
RandomizeSpeciesFileWriteFails ==
  /\ pc = "species"
  /\ env.status[unique_files_to_process[idx]] = "readonly"
  /\ Advance(unique_files_to_process, "species", "ability")
  /\ UNCHANGED <<env, fs, starter_map, bst_swap_pools, fallback_pool, all_abilities,
                 regular_item_pool, regular_locations, shuffled_pool, item_map,
                 species_written, items_written, hits>>

\* open() raises before relative_path is assigned: the handler's print raises
\* UnboundLocalError, which nothing catches.
RandomizeSpeciesFileRaises ==
  /\ pc = "species"
  /\ env.status[unique_files_to_process[idx]] = "missing"
  /\ pc' = "crashed"
  /\ UNCHANGED <<env, fs, idx, starter_map, bst_swap_pools, fallback_pool, all_abilities,
                 regular_item_pool, regular_locations, shuffled_pool, item_map,
                 species_written, items_written, hits>>

\* get_all_abilities and randomize_abilities: both report a failure and return.
AbilityPass ==
  /\ pc = "ability"
  /\ all_abilities' = get_all_abilities(env.abilities_h)
  /\ IF all_abilities' # <<>> /\ env.status[ABILITY_DATA_FILE] = "ok"
     THEN \E final_content \in AbilityFinalContent(fs[ABILITY_DATA_FILE], all_abilities') :
            fs' = [fs EXCEPT ![ABILITY_DATA_FILE] = final_content]
     ELSE UNCHANGED fs
  /\ pc' = "items"
  /\ UNCHANGED <<env, idx, starter_map, bst_swap_pools, fallback_pool,
                 regular_item_pool, regular_locations, shuffled_pool, item_map,
                 species_written, items_written, hits>>

\* get_all_items, and the list of the item files (never empty here).
ItemsInit ==
  /\ pc = "items"
  /\ regular_item_pool' = get_all_items(env.items_json)
  /\ pc' = IF regular_item_pool' # <<>> THEN "gather" ELSE "done"
  /\ UNCHANGED <<env, fs, idx, starter_map, bst_swap_pools, fallback_pool, all_abilities,
                 regular_locations, shuffled_pool, item_map, species_written,
                 items_written, hits>>

\* 1. GATHER, one file: the loop opens the file with no handler around it.
GatherItems ==
  /\ pc = "gather"
  /\ LET file_path == final_item_files_to_process[idx]
     IN /\ env.status[file_path] # "missing"
        /\ regular_locations' = regular_locations \o GatherFile(fs[file_path], regular_item_pool)
  /\ Advance(final_item_files_to_process, "gather", "shuffle")
  /\ UNCHANGED <<env, fs, starter_map, bst_swap_pools, fallback_pool, all_abilities,
                 regular_item_pool, shuffled_pool, item_map, species_written,
                 items_written, hits>>

GatherItemsRaises ==
  /\ pc = "gather"
  /\ env.status[final_item_files_to_process[idx]] = "missing"
  /\ pc' = "crashed"
  /\ UNCHANGED <<env, fs, idx, starter_map, bst_swap_pools, fallback_pool, all_abilities,
                 regular_item_pool, regular_locations, shuffled_pool, item_map,
                 species_written, items_written, hits>>

\* 2. and 3.: the shuffled copy and item_map.
ShuffleItems ==
  /\ pc = "shuffle"
  /\ shuffled_pool' \in Shuffles(regular_locations)
  /\ item_map' = BuildItemMap(regular_locations, shuffled_pool')
  /\ pc' = "apply"
  /\ UNCHANGED <<env, fs, idx, starter_map, bst_swap_pools, fallback_pool, all_abilities,
                 regular_item_pool, regular_locations, species_written, items_written, hits>>

\* 4. apply_item_shuffle on a file it can read and write.
ApplyItemShuffle ==
  /\ pc = "apply"
  /\ LET filepath == final_item_files_to_process[idx]
         done == ApplyLines(fs[filepath], item_map)
     IN /\ env.status[filepath] = "ok"
        /\ fs' = [fs EXCEPT ![filepath] = done.lines]
        /\ item_map' = done.map
        /\ hits' = [f \in DOMAIN hits \cup {filepath} |->
                      IF f = filepath THEN done.hits ELSE hits[f]]
        /\ items_written' = items_written \cup {filepath}
  /\ Advance(final_item_files_to_process, "apply", "done")
  /\ UNCHANGED <<env, starter_map, bst_swap_pools, fallback_pool, all_abilities,
                 regular_item_pool, regular_locations, shuffled_pool, species_written>>

\* The file is not there (nothing is read), or it is read, the lines are
\* replaced, popping item_map, and the write fails: reported, and on.
ApplyItemShuffleFails ==
  /\ pc = "apply"
  /\ LET filepath == final_item_files_to_process[idx]
         done == ApplyLines(fs[filepath], item_map)
     IN /\ env.status[filepath] # "ok"
        /\ item_map' = IF env.status[filepath] = "readonly" THEN done.map ELSE item_map
        /\ hits' = IF env.status[filepath] = "readonly"
                   THEN [f \in DOMAIN hits \cup {filepath} |->
                           IF f = filepath THEN done.hits ELSE hits[f]]
                   ELSE hits
  /\ Advance(final_item_files_to_process, "apply", "done")
  /\ UNCHANGED <<env, fs, starter_map, bst_swap_pools, fallback_pool, all_abilities,
                 regular_item_pool, regular_locations, shuffled_pool, species_written,
                 items_written>>

Next ==
  \/ SelectMode
  \/ FullyRandom
  \/ RandomizeSpeciesFile
  \/ RandomizeSpeciesFileWriteFails
  \/ RandomizeSpeciesFileRaises
  \/ AbilityPass
  \/ ItemsInit
  \/ GatherItems
  \/ GatherItemsRaises
  \/ ShuffleItems
  \/ ApplyItemShuffle
  \/ ApplyItemShuffleFails

Spec == Init /\ [][Next]_vars

(* ------------------------------ claims --------------------------------- *)

orig == env.files

\* The word positions of a file: <<line, word>>.
Occurrences(f) ==
  UNION {{<<l, p>> : p \in 1..Len(orig[f][l].toks)} : l \in 1..Len(orig[f])}

\* The passes replace words by words: lines, markers and commands stay.
SameShape(f) ==
  /\ Len(fs[f]) = Len(orig[f])
  /\ \A l \in 1..Len(orig[f]) :
       /\ Len(fs[f][l].toks) = Len(orig[f][l].toks)
       /\ [fs[f][l] EXCEPT !.toks = <<>>] = [orig[f][l] EXCEPT !.toks = <<>>]

\* Line l is strictly inside a START...END region: no marker line, and the
\* nearest marker line above it is a START line.
InsideRegion(content, l) ==
  /\ ~content[l].start /\ ~content[l].end
  /\ \E s \in 1..(l - 1) :
       /\ content[s].start
       /\ \A k \in (s + 1)..(l - 1) : ~content[k].start /\ ~content[k].end

\* The lines whose occurrences are eligible for substitution.
Eligible(content, l) ==
  (\E s \in 1..Len(content) : content[s].start) => InsideRegion(content, l)

\* C1: every occurrence of a protected species or ability, in every file, is
\* the same word in every state of the run.
C1_ProtectedPreserved ==
  \A f \in Files :
    /\ SameShape(f)
    /\ \A o \in Occurrences(f) :
         orig[f][o[1]].toks[o[2]] \in PROTECTED_SPECIES \cup PROTECTED_ABILITIES
           => fs[f][o[1]].toks[o[2]] = orig[f][o[1]].toks[o[2]]

\* A file the species pass rewrote (another word of it changed) holds an
\* eligible protected species, and the ability pass rewrote its file, which
\* holds protected abilities.
C1_Witness ==
  /\ \E f \in species_written :
       /\ fs[f] # orig[f]
       /\ \E o \in Occurrences(f) :
            /\ orig[f][o[1]].toks[o[2]] \in PROTECTED_SPECIES
            /\ Eligible(orig[f], o[1])
  /\ fs[ABILITY_DATA_FILE] # orig[ABILITY_DATA_FILE]
  /\ \E o \in Occurrences(ABILITY_DATA_FILE) :
       orig[ABILITY_DATA_FILE][o[1]].toks[o[2]] \in PROTECTED_ABILITIES

\* C2: in every file the species pass has written, every eligible occurrence
\* of a starter s holds starter_map[s], the one value of the run.
C2_PinnedConsistent ==
  \A f \in species_written :
    \A o \in Occurrences(f) :
      (orig[f][o[1]].toks[o[2]] \in StarterSet /\ Eligible(orig[f], o[1]))
        => /\ orig[f][o[1]].toks[o[2]] \in DOMAIN starter_map
           /\ fs[f][o[1]].toks[o[2]] = starter_map[orig[f][o[1]].toks[o[2]]]

\* Both files are written, each held an eligible occurrence of the same
\* starter, and the starter is mapped to another species.
C2_Witness ==
  /\ species_written = {FileA, FileB}
  /\ \E s \in StarterSet :
       /\ starter_map[s] # s
       /\ \A f \in {FileA, FileB} :
            \E o \in Occurrences(f) :
              orig[f][o[1]].toks[o[2]] = s /\ Eligible(orig[f], o[1])

\* The item occurrences the gather phase collects from a file: those of the
\* regular pool on lines without a forbidden command.
Collected(f) ==
  {o \in Occurrences(f) :
     /\ ~HasForbiddenCommand(orig[f][o[1]])
     /\ orig[f][o[1]].toks[o[2]] \in Range(regular_item_pool)}

\* The item occurrences the apply phase rewrote in a file.
Rewritten(f) == {o \in Occurrences(f) : hits[f][o[1]][o[2]]}

ItemFiles == Range(final_item_files_to_process)

WrittenCount(x) ==
  Cardinality({fo \in UNION {{<<f, o>> : o \in Rewritten(f)} : f \in ItemFiles} :
                 fs[fo[1]][fo[2][1]].toks[fo[2][2]] = x})

\* C3: when the item shuffle has rewritten every target file, the rewritten
\* occurrences are the collected ones, the values written are the values
\* collected, count for count, and no value of the shuffle is left.
C3_ShuffleBijection ==
  (pc = "done" /\ items_written = ItemFiles) =>
    /\ \A f \in ItemFiles : Rewritten(f) = Collected(f)
    /\ \A x \in ItemWords : WrittenCount(x) = Count(regular_locations, x)
    /\ \A x \in DOMAIN item_map : item_map[x] = <<>>

\* C4: a line with a forbidden command in a file the item shuffle has written
\* has the item words it had.
C4_ForbiddenLineUntouched ==
  \A f \in items_written :
    \A o \in Occurrences(f) :
      (HasForbiddenCommand(orig[f][o[1]]) /\ item_pattern(orig[f][o[1]].toks[o[2]]))
        => fs[f][o[1]].toks[o[2]] = orig[f][o[1]].toks[o[2]]

\* C5 as stated: in a file with a START marker every line that is not strictly
\* inside a region is what it was, in every state of the run.
C5_RegionScopingAllPasses ==
  \A f \in Files :
    (\E s \in 1..Len(orig[f]) : orig[f][s].start) =>
      \A l \in 1..Len(orig[f]) : ~InsideRegion(orig[f], l) => fs[f][l] = orig[f][l]

\* C5 for the species pass alone: in a file with a START marker every line
\* that is not strictly inside a region is what it was until the item shuffle
\* rewrites the files, and keeps its SPECIES_ words to the end of the run.
C5_RegionScopingSpecies ==
  \A f \in Files :
    (\E s \in 1..Len(orig[f]) : orig[f][s].start) =>
      \A l \in 1..Len(orig[f]) : ~InsideRegion(orig[f], l) =>
        /\ SameShape(f)
        /\ pc \notin {"apply", "done"} => fs[f][l] = orig[f][l]
        /\ \A p \in 1..Len(orig[f][l].toks) :
             encounter_pattern(orig[f][l].toks[p]) => fs[f][l].toks[p] = orig[f][l].toks[p]

\* The species pass wrote two files with markers.  In one a line inside a
\* region changed and a line above the START line holds a starter that is
\* mapped away; in the other such a starter is on a line below the END line
\* of a region.
C5_Witness ==
  LET MappedAway(f, l) ==
        \E p \in 1..Len(orig[f][l].toks) :
          /\ orig[f][l].toks[p] \in DOMAIN starter_map
          /\ starter_map[orig[f][l].toks[p]] # orig[f][l].toks[p]
      Plain(f, l) == ~orig[f][l].start /\ ~orig[f][l].end
  IN /\ \E f \in species_written :
          /\ \E l \in 1..Len(orig[f]) : InsideRegion(orig[f], l) /\ fs[f][l] # orig[f][l]
          /\ \E l \in 1..Len(orig[f]) :
               /\ Plain(f, l) /\ MappedAway(f, l)
               /\ \A s \in 1..l : ~orig[f][s].start
               /\ \E s \in (l + 1)..Len(orig[f]) : orig[f][s].start
     /\ \E f \in species_written :
          \E l \in 1..Len(orig[f]) :
            /\ Plain(f, l) /\ MappedAway(f, l)
            /\ \E s \in 1..(l - 1) : orig[f][s].start
            /\ \E e \in 1..(l - 1) : orig[f][e].end

KeyItems == {e.itemId : e \in {x \in Range(env.items_json.items) : x.pocket = "POCKET_KEY_ITEMS"}}
HMItems == {w \in ItemWords : StartsWithItemHM(w)}
NeverWritten ==
  POOL_EXCLUSIONS \cup PROTECTED_ABILITIES \cup ITEM_POOL_EXCLUSIONS \cup HMItems \cup KeyItems

\* C8: in every state of the run, a word of a file that is not the word the
\* file had there is no excluded species, no protected ability and no
\* excluded, HM or key item.
C8_NoExcludedResult ==
  \A f \in Files :
    /\ SameShape(f)
    /\ \A o \in Occurrences(f) :
         fs[f][o[1]].toks[o[2]] # orig[f][o[1]].toks[o[2]]
           => fs[f][o[1]].toks[o[2]] \notin NeverWritten

\* The run is over and a species, an ability and an item have been replaced
\* by another.
C8_Witness ==
  /\ pc = "done"
  /\ \A pattern \in {SpeciesWords, AbilityWords, ItemWords} :
       \E f \in Files : \E o \in Occurrences(f) :
         /\ orig[f][o[1]].toks[o[2]] \in pattern
         /\ fs[f][o[1]].toks[o[2]] # orig[f][o[1]].toks[o[2]]

\* C9: the run is never stopped by a target file that is missing.
C9_RunNeverStops == pc # "crashed"

RECURSIVE FirstSeen(_, _)
\* The names of a list, each once, in first-seen order.
FirstSeen(names, seen) ==
  IF names = <<>> THEN <<>>
  ELSE IF Head(names) \in seen THEN FirstSeen(Tail(names), seen)
  ELSE <<Head(names)>> \o FirstSeen(Tail(names), seen \cup {Head(names)})

\* C10: the catalogs the run has loaded hold the names their headers define
\* that are not excluded, each once, in first-seen order.
C10_CatalogDistinct ==
  /\ fallback_pool # <<>> =>
       fallback_pool = FirstSeen(SelectSeq(env.species_h.lines,
                         LAMBDA n : n \in SpeciesWords \ POOL_EXCLUSIONS), {})
  /\ all_abilities # <<>> =>
       all_abilities = FirstSeen(SelectSeq(env.abilities_h.lines,
                         LAMBDA n : n \in AbilityWords \ PROTECTED_ABILITIES), {})

(* ------------------- build_bst_swap_pools on its own ------------------- *)

PoolSymbols == {"A", "B", "C"}
PoolScores == {10, 20, 35, 90}
PoolRanges == {15, BST_SIMILARITY_RANGE}

InitPools ==
  /\ env \in {[bst_map |-> m, similarity_range |-> t] :
                m \in UNION {[S -> PoolScores] : S \in SUBSET PoolSymbols},
                t \in PoolRanges}
  /\ fs = EmptyMap
  /\ pc = "pools"
  /\ idx = 1
  /\ starter_map = EmptyMap
  /\ bst_swap_pools = EmptyMap
  /\ fallback_pool = <<>>
  /\ all_abilities = <<>>
  /\ regular_item_pool = <<>>
  /\ regular_locations = <<>>
  /\ shuffled_pool = <<>>
  /\ item_map = EmptyMap
  /\ species_written = {}
  /\ items_written = {}
  /\ hits = EmptyMap

BuildPools ==
  /\ pc = "pools"
  /\ bst_swap_pools' = build_bst_swap_pools(env.bst_map, env.similarity_range)
  /\ pc' = "built"
  /\ UNCHANGED <<env, fs, idx, starter_map, fallback_pool, all_abilities, regular_item_pool,
                 regular_locations, shuffled_pool, item_map, species_written,
                 items_written, hits>>

SpecPools == InitPools /\ [][BuildPools]_vars

\* C6: the table build_bst_swap_pools returns has an entry for the symbols
\* with a score and no other; b is in the entry of a exactly when the scores
\* of a and b differ by at most the range, and then a is in the entry of b;
\* scores A=10, B=20, C=90 and range 15 give {A,B}, {A,B}, {C}.
C6_PoolsExact ==
  pc = "built" =>
    /\ DOMAIN bst_swap_pools = DOMAIN env.bst_map
    /\ \A a \in DOMAIN env.bst_map :
         /\ bst_swap_pools[a] \subseteq DOMAIN env.bst_map
         /\ \A b \in DOMAIN env.bst_map :
              /\ b \in bst_swap_pools[a] <=>
                   /\ env.bst_map[a] - env.bst_map[b] <= env.similarity_range
                   /\ env.bst_map[b] - env.bst_map[a] <= env.similarity_range
              /\ b \in bst_swap_pools[a] <=> a \in bst_swap_pools[b]
    /\ (env.bst_map = [x \in PoolSymbols |-> IF x = "A" THEN 10 ELSE IF x = "B" THEN 20 ELSE 90]
        /\ env.similarity_range = 15)
       => bst_swap_pools = [x \in PoolSymbols |-> IF x = "C" THEN {"C"} ELSE {"A", "B"}]

\* The table is built for the scores and the range of the example.
C6_Witness ==
  /\ pc = "built"
  /\ env.bst_map = [x \in PoolSymbols |-> IF x = "A" THEN 10 ELSE IF x = "B" THEN 20 ELSE 90]
  /\ env.similarity_range = 15
  /\ bst_swap_pools["A"] = {"A", "B"}

(* --------------------- replacement_logic on its own -------------------- *)

\* randomize_species_in_file called on a file of one word, with any pinned
\* mapping, pools and flat pool (also the ones __main__ never passes together).
ResolverStarterMaps ==
  { EmptyMap,
    [s \in StarterSet |-> "SPECIES_MEWTWO"],
    [s \in {"SPECIES_EGG", "SPECIES_PIKACHU"} |-> "SPECIES_SQUIRTLE"] }
ResolverPools ==
  { EmptyMap,
    [s \in {"SPECIES_BULBASAUR", "SPECIES_PIKACHU", "SPECIES_MEWTWO"} |->
       IF s = "SPECIES_MEWTWO" THEN {} ELSE {"SPECIES_BULBASAUR", "SPECIES_PIKACHU"}] }
ResolverFlatPools == { <<>>, <<"SPECIES_CHARMANDER", "SPECIES_MEWTWO">> }

InitResolver ==
  /\ env \in {Env(Missing, NoCsv, NoBaseStats, Missing, NoItems, AllOk,
                  <<Ln(FALSE, FALSE, "", <<w>>)>>, b) :
                w \in SpeciesWords, b \in {<<>>, SubSeq(Corpus, 1, 1)}}
  /\ fs = env.files
  /\ pc = "species"
  /\ idx = 1
  /\ starter_map \in ResolverStarterMaps
  /\ bst_swap_pools \in ResolverPools
  /\ fallback_pool \in ResolverFlatPools
  /\ all_abilities = <<>>
  /\ regular_item_pool = <<>>
  /\ regular_locations = <<>>
  /\ shuffled_pool = <<>>
  /\ item_map = EmptyMap
  /\ species_written = {}
  /\ items_written = {}
  /\ hits = EmptyMap

SpecResolver == InitResolver /\ [][RandomizeSpeciesFile]_vars

\* C7: the word written for a matched species s is starter_map[s] when s is
\* pinned; else s when s is protected; else a member of s's entry when there
\* are pools and the entry is not empty; else s when there are pools; else a
\* member of the flat pool when there is one; else s.
C7_ResolutionOrder ==
  \A f \in species_written :
    \A o \in Occurrences(f) :
      LET s == orig[f][o[1]].toks[o[2]]
          r == fs[f][o[1]].toks[o[2]]
          pools_exist == DOMAIN bst_swap_pools # {}
      IN encounter_pattern(s) =>
           IF s \in DOMAIN starter_map THEN r = starter_map[s]
           ELSE IF s \in PROTECTED_SPECIES THEN r = s
           ELSE IF pools_exist /\ s \in DOMAIN bst_swap_pools /\ bst_swap_pools[s] # {}
                THEN r \in bst_swap_pools[s]
           ELSE IF pools_exist THEN r = s
           ELSE IF Len(fallback_pool) > 0 THEN \E i \in 1..Len(fallback_pool) : r = fallback_pool[i]
           ELSE r = s

\* C7, in __main__'s own runs: with pools built, a species without a score is
\* the same word in every file in every state (a starter without a score is
\* pinned to itself).
C7_NoScoreUnchanged ==
  DOMAIN bst_swap_pools # {} =>
    \A f \in Files : \A o \in Occurrences(f) :
      (encounter_pattern(orig[f][o[1]].toks[o[2]])
       /\ orig[f][o[1]].toks[o[2]] \notin DOMAIN bst_swap_pools)
        => fs[f][o[1]].toks[o[2]] = orig[f][o[1]].toks[o[2]]

\* A species that is not pinned, not protected and has no entry in the pools
\* has been matched with pools and a flat pool both at hand.
C7_Witness ==
  /\ FileA \in species_written
  /\ DOMAIN bst_swap_pools # {}
  /\ fallback_pool # <<>>
  /\ \E o \in Occurrences(FileA) :
       LET s == orig[FileA][o[1]].toks[o[2]]
       IN /\ s \notin DOMAIN starter_map \cup PROTECTED_SPECIES \cup DOMAIN bst_swap_pools
          /\ fs[FileA][o[1]].toks[o[2]] = s

(* --------------------------- pinned mapping ---------------------------- *)

\* The scores mode selection works with (lines 278-280), EmptyMap for none.
species_bst_map ==
  LET from_csv == get_species_bst_map_from_csv(env.csv, env.species_h)
      m == IF from_csv.none THEN get_species_bst_map_from_header(env.base_stats) ELSE from_csv
  IN IF m.none THEN EmptyMap ELSE m.map

\* The values of starter_map are what mode selection allows: with pools a
\* member of the starter's entry, within the range of its score, or the
\* starter itself when it has no entry or an empty one; without pools a
\* member of the flat pool.
PinnedValuesAllowed ==
  starter_map # EmptyMap =>
    /\ DOMAIN starter_map = StarterSet
    /\ \A k \in StarterSet :
         IF bst_swap_pools # EmptyMap
         THEN IF k \in DOMAIN bst_swap_pools /\ bst_swap_pools[k] # {}
              THEN /\ starter_map[k] \in bst_swap_pools[k]
                   /\ starter_map[k] \in DOMAIN species_bst_map
                   /\ Abs(species_bst_map[k] - species_bst_map[starter_map[k]])
                        <= BST_SIMILARITY_RANGE
              ELSE starter_map[k] = k
         ELSE \E i \in 1..Len(fallback_pool) : starter_map[k] = fallback_pool[i]

\* C11: the pinned mapping is empty until mode selection, which can always
\* take its step (no draw from an empty pool stops it); it is assigned while
\* no file has been touched and, once it has entries, never again; its values
\* are those mode selection allows; and the species pass runs only with an
\* entry for every starter.
C11_PinnedMappingOnce ==
  /\ [](/\ pc = "mode" => (starter_map = EmptyMap /\ ENABLED SelectMode)
        /\ pc = "fully_random" => ENABLED FullyRandom
        /\ PinnedValuesAllowed
        /\ (pc = "species" \/ species_written # {}) => DOMAIN starter_map = StarterSet)
  /\ [][/\ starter_map # EmptyMap => starter_map' = starter_map
        /\ starter_map' # starter_map => (fs = env.files /\ species_written = {})]_vars

\* In similarity mode a file has been written by the species pass with one
\* starter pinned to another member of its pool and one starter, which has no
\* score, pinned to itself.
C11_Witness ==
  /\ species_written # {}
  /\ bst_swap_pools # EmptyMap
  /\ \E k \in StarterSet :
       k \in DOMAIN bst_swap_pools /\ starter_map[k] # k /\ starter_map[k] \in bst_swap_pools[k]
  /\ \E k \in StarterSet : k \notin DOMAIN bst_swap_pools /\ starter_map[k] = k

(* ------------------- lookup structures across files -------------------- *)

\* The files are being rewritten: mode selection is over.
FilesInProcess == pc \notin {"mode", "fully_random"}

\* C12 as stated: the pools, the flat pool, the pinned mapping and item_map
\* are built while no file has been written, and no step of the species loop
\* or of the apply loop changes any of them.
C12_LookupsReadOnly ==
  /\ [](~FilesInProcess => fs = env.files)
  /\ [][/\ FilesInProcess => UNCHANGED <<starter_map, bst_swap_pools, fallback_pool>>
        /\ pc \in {"species", "apply"} => item_map' = item_map]_vars

\* The number of words equal to x that the step of the apply loop on file f
\* replaced.
Popped(f, x) ==
  IF f \in DOMAIN hits' /\ f \notin DOMAIN hits
  THEN Cardinality({o \in Occurrences(f) : hits'[f][o[1]][o[2]] /\ fs[f][o[1]].toks[o[2]] = x})
  ELSE 0

\* C12, amended: the pools, the flat pool and the pinned mapping are built
\* while no file has been written and no later step changes them; item_map is
\* built by the shuffle step, after the species and ability passes have
\* written their files, and each step of the apply loop takes from the front
\* of its lists one value per word it replaced in the file, so that what is
\* left for a file is what the files before it did not use.
C12_LookupsReadOnlyButItemMap ==
  /\ [](~FilesInProcess => fs = env.files)
  /\ [][/\ FilesInProcess => UNCHANGED <<starter_map, bst_swap_pools, fallback_pool>>
        /\ pc \notin {"shuffle", "apply"} => item_map' = item_map
        /\ pc = "apply" =>
             /\ DOMAIN item_map' = DOMAIN item_map
             /\ \A x \in DOMAIN item_map :
                  item_map'[x] = SubSeq(item_map[x],
                                        Popped(final_item_files_to_process[idx], x) + 1,
                                        Len(item_map[x]))]_vars

\* The species pass has written both files with pools and a pinned mapping,
\* and the apply loop has written the first file and taken values of item_map.
C12_Witness ==
  /\ species_written = {FileA, FileB}
  /\ bst_swap_pools # EmptyMap
  /\ starter_map # EmptyMap
  /\ pc = "apply" /\ items_written = {FileA}
  /\ item_map # BuildItemMap(regular_locations, shuffled_pool)

(* ---------------------- the item words of the files -------------------- *)

\* The number of words equal to x in the item files with the given contents.
TotalCount(contents, x) ==
  Cardinality({fo \in UNION {{<<f, o>> : o \in Occurrences(f)} : f \in ItemFiles} :
                 contents[fo[1]][fo[2][1]].toks[fo[2][2]] = x})

\* C13: at the end of a run in which every item file could be read and
\* written, every item word occurs in the item files as often as it did at
\* the start, and every occurrence of an item word that is not in the regular
\* pool holds the word it held.
C13_ItemMultisetPreserved ==
  (pc = "done" /\ \A f \in ItemFiles : env.status[f] = "ok") =>
    /\ \A f \in ItemFiles : SameShape(f)
    /\ \A x \in ItemWords : TotalCount(fs, x) = TotalCount(orig, x)
    /\ \A f \in ItemFiles : \A o \in Occurrences(f) :
         (item_pattern(orig[f][o[1]].toks[o[2]])
          /\ orig[f][o[1]].toks[o[2]] \notin Range(regular_item_pool))
           => fs[f][o[1]].toks[o[2]] = orig[f][o[1]].toks[o[2]]

\* The shuffle has written every item file; an item word on a line with a
\* forbidden command was replaced by another, and the files hold an item word
\* that is not in the regular pool.
C13_Witness ==
  /\ pc = "done" /\ items_written = ItemFiles
  /\ \A f \in ItemFiles : env.status[f] = "ok"
  /\ \E f \in ItemFiles : \E o \in Occurrences(f) :
       /\ HasForbiddenCommand(orig[f][o[1]])
       /\ item_pattern(orig[f][o[1]].toks[o[2]])
       /\ fs[f][o[1]].toks[o[2]] # orig[f][o[1]].toks[o[2]]
  /\ \E f \in ItemFiles : \E o \in Occurrences(f) :
       /\ item_pattern(orig[f][o[1]].toks[o[2]])
       /\ orig[f][o[1]].toks[o[2]] \notin Range(regular_item_pool)

====
